---- MODULE Spec2Model ----
(***************************************************************************)
(* Model of the python-service of math-tool: the SolverService operations  *)
(* (solve_equation, differentiate, integrate), the /solve and /solve/verify *)
(* routes, and the OCRService with its /pix2tex route.                      *)
(*                                                                         *)
(* Python strings are sequences of tokens (a token is a TLA+ string); the   *)
(* empty string is <<>>.  Optional[str] is a record [some, val].  The       *)
(* algebra engine (SymPy) and the recognition model (Pix2Tex) are external: *)
(* every call into them either raises an Exception with some message or     *)
(* returns, and what it returns is drawn from small sets.                   *)
(***************************************************************************)
EXTENDS Integers, Sequences, FiniteSets, TLC

\* ---------------------------------------------------------------- bounds
MaxLen == 3          \* longest expression_latex, in tokens
MaxSolutions == 2    \* most solutions sp.solve returns
NumThreads == 2      \* concurrent callers of OCRService

\* ---------------------------------------------------------------- values
None == [some |-> FALSE, val |-> <<>>]
Some(s) == [some |-> TRUE, val |-> s]
\* Python truthiness of an Optional[str]: None and "" are falsy
Truthy(o) == o.some /\ Len(o.val) > 0

LatexTokens == {"x", "=", " ", "\\left"}
RECURSIVE StringsUpTo(_)
StringsUpTo(n) ==
  IF n = 0 THEN {<<>>}
  ELSE LET shorter == StringsUpTo(n - 1)
       IN  shorter \cup {Append(s, t) : s \in {u \in shorter : Len(u) = n - 1},
                                       t \in LatexTokens}
LatexInputs == StringsUpTo(MaxLen)

\* messages an engine exception may carry: str(e) of an exception raised
\* without arguments (an AssertionError of a bare assert, ValueError()) is ""
ExcMessages == {<<>>, <<"err">>}
\* what sp.latex renders
Renderings == {<<"a">>, <<"b">>}
\* names of the free symbols the engine may report
SymbolNames == {<<"x">>, <<"y">>}
SolveForChoices == {None, Some(<<>>), Some(<<"y">>)}
Operations == {"solve", "differentiate", "integrate"}
ExpectedChoices == {None, Some(<<>>), Some(<<"x", " ", "=", " ", "a">>)}
UserAnswers == {<<"a">>}
Threads == 1..NumThreads
\* image_base64 values: empty, a bare payload, a data URL
Images == {<<>>, <<"A">>, <<"data:image/png;base64", ",", "A">>}
\* what the recognition model returns
Recognitions == {<<>>, <<"x">>}

\* ---------------------------------------------------------------- strings
RECURSIVE SplitFrom(_, _, _)
SplitFrom(s, sep, cur) ==
  IF s = <<>> THEN <<cur>>
  ELSE IF Head(s) = sep THEN <<cur>> \o SplitFrom(Tail(s), sep, <<>>)
  ELSE SplitFrom(Tail(s), sep, Append(cur, Head(s)))
\* str.split(sep)
Split(s, sep) == SplitFrom(s, sep, <<>>)
\* sep in s
Contains(s, tok) == \E i \in 1..Len(s) : s[i] = tok
RECURSIVE LStrip(_)
LStrip(s) == IF s # <<>> /\ Head(s) = " " THEN LStrip(Tail(s)) ELSE s
RECURSIVE RStrip(_)
RStrip(s) ==
  IF s # <<>> /\ s[Len(s)] = " " THEN RStrip(SubSeq(s, 1, Len(s) - 1)) ELSE s
\* str.strip()
Strip(s) == RStrip(LStrip(s))
\* str.replace(tok, "")
Remove(s, tok) == SelectSeq(s, LAMBDA t : t # tok)
IsPrefix(s, t) == Len(s) <= Len(t) /\ SubSeq(t, 1, Len(s)) = s

\* ---------------------------------------------------------------- records
SolutionStep(n, d, e) ==
  [step_number |-> n, description |-> d, expression_latex |-> e]
SolveResult(ok, answer, st, err) ==
  [kind |-> "SolveResult", success |-> ok, answer_latex |-> answer,
   steps |-> st, error |-> err]
\* the function has not returned yet
Pending ==
  [kind |-> "pending", success |-> FALSE, answer_latex |-> <<>>,
   steps |-> <<>>, error |-> None]
\* the function fell off its end: Python returns None
ReturnedNone ==
  [kind |-> "None", success |-> FALSE, answer_latex |-> <<>>,
   steps |-> <<>>, error |-> None]

NoResponse ==
  [kind |-> "none", success |-> FALSE, answer_latex |-> <<>>, steps |-> <<>>,
   error |-> None, is_correct |-> FALSE, status |-> 0]
HTTPException(code) == [NoResponse EXCEPT !.kind = "HTTPException", !.status = code]
\* an exception no handler of the route catches
Escaped == [NoResponse EXCEPT !.kind = "escaped"]
SolveResponse(r) ==
  [NoResponse EXCEPT !.kind = "SolveResponse", !.success = r.success,
                     !.answer_latex = r.answer_latex, !.steps = r.steps,
                     !.error = r.error]
VerifyDict(ok, err) ==
  [NoResponse EXCEPT !.kind = "dict", !.is_correct = ok, !.error = err]

\* no exception was caught; sp.solve was not called
NotCaught == [some |-> FALSE, val |-> <<>>, at |-> "none"]
NotSolved == [called |-> FALSE, returned |-> FALSE, count |-> 0]

NoRequest ==
  [expression_latex |-> <<>>, operation |-> "solve", solve_for |-> None,
   user_answer |-> <<>>, expected_answer |-> None]

\* ---------------------------------------------------------------- state
VARIABLES
  pc,          \* position of the request being served
  route,       \* "none", "solve" or "verify": the route serving it
  request,     \* the request's fields
  latex,       \* solver argument: latex
  arg_var,     \* solver argument: solve_for / var
  steps,       \* solver local: steps
  expr,        \* solver local: the parsed expression (its normalized source)
  var,         \* solve_equation local: the resolved variable's name
  answer,      \* differentiate local: derivative_latex
  expected_answer, \* verify_answer local: expected_answer
  result,      \* what the solver call returned
  response,    \* what the route answered
  invoked,     \* history: the SolverService operation this request invoked
  raised,      \* history: the exception the solver call caught
  solution     \* history: the call of sp.solve and what it returned

solverVars ==
  <<pc, route, request, latex, arg_var, steps, expr, var, answer,
    expected_answer, result, response, invoked, raised, solution>>

VARIABLES
  _model,      \* OCRService._model: 0 is None, else the handle's identity
  created,     \* history: how many model handles LatexOCR() has created
  handles,     \* history: the handles get_model has returned
  opc,         \* per caller: position in the OCR route
  image,       \* per caller: request.image_base64
  model,       \* per caller: recognize's local model
  recognized,  \* per caller: what recognize returned
  oresponse,   \* per caller: the OCRResponse
  oraised      \* per caller, history: recognize caught an exception

ocrVars ==
  <<_model, created, handles, opc, image, model, recognized, oresponse,
    oraised>>

vars == <<solverVars, ocrVars>>

\* the tuple recognize returns: (latex, confidence, error)
RecognizeTuple(l, c, e) ==
  [returned |-> TRUE, latex |-> l, confidence |-> c, error |-> e]
NotRecognized ==
  [returned |-> FALSE, latex |-> None, confidence |-> "0.0", error |-> None]
OCRResponse(ok, l, c, e) ==
  [kind |-> "OCRResponse", success |-> ok, latex |-> l, confidence |-> c,
   error |-> e]
NoOCRResponse ==
  [kind |-> "none", success |-> FALSE, latex |-> None, confidence |-> "0.0",
   error |-> None]
OCRHTTPException ==
  [kind |-> "HTTPException", success |-> FALSE, latex |-> None,
   confidence |-> "0.0", error |-> Some(<<"No image provided">>)]

Init ==
  /\ pc = "idle"
  /\ route = "none"
  /\ request = NoRequest
  /\ latex = <<>>
  /\ arg_var = None
  /\ steps = <<>>
  /\ expr = <<>>
  /\ var = <<>>
  /\ answer = <<>>
  /\ expected_answer = None
  /\ result = Pending
  /\ response = NoResponse
  /\ invoked = "none"
  /\ raised = NotCaught
  /\ solution = NotSolved
  /\ _model = 0
  /\ created = 0
  /\ handles = {}
  /\ opc = [t \in Threads |-> "idle"]
  /\ image = [t \in Threads |-> <<>>]
  /\ model = [t \in Threads |-> 0]
  /\ recognized = [t \in Threads |-> NotRecognized]
  /\ oresponse = [t \in Threads |-> NoOCRResponse]
  /\ oraised = [t \in Threads |-> FALSE]

\* ---------------------------------------------------------------- engine
\* the outcome of a call into the engine: it raised, or it returned a value
Raise(m) == [raised |-> TRUE, msg |-> m, value |-> <<>>]
Return(v) == [raised |-> FALSE, msg |-> <<>>, value |-> v]
Raises == {Raise(m) : m \in ExcMessages}
\* the first exception of a sequence of calls made in order, if any
AnyRaised(calls) == \E i \in 1..Len(calls) : calls[i].raised
FirstRaised(calls) ==
  calls[CHOOSE i \in 1..Len(calls) :
          calls[i].raised /\ \A j \in 1..(i - 1) : ~calls[j].raised]

\* sympy.parsing.latex.parse_latex: the expression is kept as its source
parse_latex(s) == Raises \cup {Return(s)}
\* sp.latex
sp_latex == Raises \cup {Return(r) : r \in Renderings}
\* sp.simplify, sp.diff, sp.integrate, sp.Eq, sp.Symbol: raise or return
sp_call == Raises \cup {Return(<<>>)}
\* sp.solve: raises or returns a list of 0..MaxSolutions solutions
sp_solve ==
  {[raised |-> TRUE, msg |-> m, value |-> 0] : m \in ExcMessages}
    \cup {[raised |-> FALSE, msg |-> <<>>, value |-> n] : n \in 0..MaxSolutions}

\* ---------------------------------------------------------------- SolverService
latex_to_sympy(l) ==
  parse_latex(Remove(Remove(Strip(l), "\\left"), "\\right"))

sympy_to_latex == sp_latex

\* the except clause caught an exception with message m, raised at pc
Caught(m) == [some |-> TRUE, val |-> m, at |-> pc]

\* return r from the service call
ReturnResult(r) ==
  /\ result' = r
  /\ pc' = "returned"

\* an except clause that loses the steps recorded so far
solve_equation_except_drops_steps(st, msg) ==
  SolveResult(FALSE, <<>>, <<>>, Some(msg))

solve_equation_except(st, msg) == SolveResult(FALSE, <<>>, st, Some(msg))

differentiate_except(st, msg) == SolveResult(FALSE, <<>>, st, Some(msg))

integrate_except(st, msg) == SolveResult(FALSE, <<>>, st, Some(msg))

\* a no-solution branch that leaves out the error argument
no_solution_result_without_error(st) == SolveResult(FALSE, <<>>, st, None)

\* the result of the else branch of "if solution:"
no_solution_result(st) ==
  SolveResult(FALSE, <<>>, st, Some(<<"No solution found">>))

\* a classification that takes every input for an equation
is_equation_always(l) == Len(Split(l, "=")) >= 1

\* if "=" in latex
is_equation(l) == Contains(l, "=")

\* a second step that carries the number of the third
simplify_the_expression_step_misnumbered(text) ==
  SolutionStep(3, <<"Simplify the expression">>, text)

\* the second step of the branch that simplifies a bare expression
simplify_the_expression_step(text) ==
  SolutionStep(2, <<"Simplify the expression">>, text)

solve_equation_begin ==
  /\ UNCHANGED ocrVars
  /\ pc = "se_begin"
  /\ steps' = Append(<<>>, SolutionStep(1, <<"Parse the expression">>, latex))
  /\ pc' = "se_parse"
  /\ UNCHANGED <<route, request, latex, arg_var, expr, var, answer,
                 expected_answer, result, response, invoked, raised,
                 solution>>

\* expr = cls.latex_to_sympy(latex), then the classification of the input
solve_equation_parse ==
  /\ UNCHANGED ocrVars
  /\ pc = "se_parse"
  /\ \E e \in latex_to_sympy(latex) :
       IF e.raised
       THEN /\ ReturnResult(solve_equation_except(steps, e.msg))
            /\ raised' = Caught(e.msg)
            /\ UNCHANGED expr
       ELSE /\ expr' = e.value
            /\ raised' = raised
            /\ IF is_equation(latex)
               THEN IF Len(Split(latex, "=")) = 2
                    THEN pc' = "se_identify" /\ UNCHANGED result
                    ELSE ReturnResult(ReturnedNone)
               ELSE pc' = "se_simplify_step" /\ UNCHANGED result
  /\ UNCHANGED <<route, request, latex, arg_var, steps, var, answer,
                 expected_answer, response, invoked, solution>>

solve_equation_identify ==
  /\ UNCHANGED ocrVars
  /\ pc = "se_identify"
  /\ LET parts == Split(latex, "=")
     IN  \E left \in latex_to_sympy(parts[1]),
            right \in latex_to_sympy(parts[2]),
            eq \in sp_call, text \in sympy_to_latex :
           LET calls == <<left, right, eq, text>>
           IN  IF AnyRaised(calls)
               THEN /\ ReturnResult(
                         solve_equation_except(steps, FirstRaised(calls).msg))
                    /\ raised' = Caught(FirstRaised(calls).msg)
                    /\ UNCHANGED <<steps, expr>>
               ELSE /\ expr' = left.value \o <<"=">> \o right.value
                    /\ steps' = Append(steps,
                         SolutionStep(2, <<"Identify the equation">>, text.value))
                    /\ pc' = "se_resolve"
                    /\ UNCHANGED <<result, raised>>
  /\ UNCHANGED <<route, request, latex, arg_var, var, answer,
                 expected_answer, response, invoked, solution>>

solve_equation_resolve ==
  /\ UNCHANGED ocrVars
  /\ pc = "se_resolve"
  /\ \E free_symbols \in SUBSET SymbolNames, sym \in sp_call,
        text \in sympy_to_latex :
       \E v \in (IF Truthy(arg_var) THEN {arg_var.val}
                 ELSE IF free_symbols # {} THEN free_symbols
                 ELSE {<<"x">>}) :
         LET calls == <<sym, text>>
         IN  IF AnyRaised(calls)
             THEN /\ ReturnResult(
                       solve_equation_except(steps, FirstRaised(calls).msg))
                  /\ raised' = Caught(FirstRaised(calls).msg)
                  /\ UNCHANGED <<steps, var>>
             ELSE /\ var' = v
                  /\ steps' = Append(steps,
                       SolutionStep(3, <<"Solve for ">> \o v, text.value))
                  /\ pc' = "se_solve"
                  /\ UNCHANGED <<result, raised>>
  /\ UNCHANGED <<route, request, latex, arg_var, expr, answer,
                 expected_answer, response, invoked, solution>>

solve_equation_solve ==
  /\ UNCHANGED ocrVars
  /\ pc = "se_solve"
  /\ \E sol \in sp_solve, text \in sympy_to_latex :
     /\ solution' = [called |-> TRUE, returned |-> ~sol.raised,
                      count |-> sol.value]
     /\ IF sol.raised
       THEN /\ ReturnResult(solve_equation_except(steps, sol.msg))
            /\ raised' = Caught(sol.msg)
            /\ UNCHANGED steps
       ELSE IF sol.value > 0
       THEN IF text.raised
            THEN /\ ReturnResult(solve_equation_except(steps, text.msg))
                 /\ raised' = Caught(text.msg)
                 /\ UNCHANGED steps
            ELSE LET answer_latex == var \o <<" ", "=", " ">> \o text.value
                 IN  /\ steps' = Append(steps,
                          SolutionStep(4, <<"Solution">>, answer_latex))
                     /\ ReturnResult(SolveResult(TRUE, answer_latex, steps', None))
                     /\ UNCHANGED raised
       ELSE /\ ReturnResult(no_solution_result(steps))
            /\ UNCHANGED <<steps, raised>>
  /\ UNCHANGED <<route, request, latex, arg_var, expr, var, answer,
                 expected_answer, response, invoked>>

solve_equation_simplify_step ==
  /\ UNCHANGED ocrVars
  /\ pc = "se_simplify_step"
  /\ \E text \in sympy_to_latex :
       IF text.raised
       THEN /\ ReturnResult(solve_equation_except(steps, text.msg))
            /\ raised' = Caught(text.msg)
            /\ UNCHANGED steps
       ELSE /\ steps' = Append(steps, simplify_the_expression_step(text.value))
            /\ pc' = "se_simplify"
            /\ UNCHANGED <<result, raised>>
  /\ UNCHANGED <<route, request, latex, arg_var, expr, var, answer,
                 expected_answer, response, invoked, solution>>

solve_equation_simplify ==
  /\ UNCHANGED ocrVars
  /\ pc = "se_simplify"
  /\ \E simplified \in sp_call, text \in sympy_to_latex :
       LET calls == <<simplified, text>>
       IN  IF AnyRaised(calls)
           THEN /\ ReturnResult(
                     solve_equation_except(steps, FirstRaised(calls).msg))
                /\ raised' = Caught(FirstRaised(calls).msg)
                /\ UNCHANGED steps
           ELSE /\ steps' = Append(steps,
                     SolutionStep(3, <<"Simplified result">>, text.value))
                /\ ReturnResult(SolveResult(TRUE, text.value, steps', None))
                /\ UNCHANGED raised
  /\ UNCHANGED <<route, request, latex, arg_var, expr, var, answer,
                 expected_answer, response, invoked, solution>>

\* expr = cls.latex_to_sympy(latex); symbol = sp.Symbol(var); the first step
differentiate_parse ==
  /\ UNCHANGED ocrVars
  /\ pc = "d_parse"
  /\ \E e \in latex_to_sympy(latex), symbol \in sp_call :
       LET calls == <<e, symbol>>
       IN  IF AnyRaised(calls)
           THEN /\ ReturnResult(
                     differentiate_except(<<>>, FirstRaised(calls).msg))
                /\ raised' = Caught(FirstRaised(calls).msg)
                /\ steps' = <<>>
                /\ UNCHANGED expr
           ELSE /\ expr' = e.value
                /\ steps' = Append(<<>>,
                     SolutionStep(1,
                       <<"Differentiate with respect to ">> \o arg_var.val,
                       <<"\\frac{d}{d">> \o arg_var.val \o <<"}\\left(">>
                         \o latex \o <<"\\right)">>))
                /\ pc' = "d_diff"
                /\ UNCHANGED <<result, raised>>
  /\ UNCHANGED <<route, request, latex, arg_var, var, answer,
                 expected_answer, response, invoked, solution>>

differentiate_diff ==
  /\ UNCHANGED ocrVars
  /\ pc = "d_diff"
  /\ \E derivative \in sp_call, text \in sympy_to_latex :
       LET calls == <<derivative, text>>
       IN  IF AnyRaised(calls)
           THEN /\ ReturnResult(
                     differentiate_except(steps, FirstRaised(calls).msg))
                /\ raised' = Caught(FirstRaised(calls).msg)
                /\ UNCHANGED <<steps, answer>>
           ELSE /\ answer' = text.value
                /\ steps' = Append(steps,
                     SolutionStep(2, <<"Apply differentiation rules">>,
                                  text.value))
                /\ pc' = "d_simplify"
                /\ UNCHANGED <<result, raised>>
  /\ UNCHANGED <<route, request, latex, arg_var, expr, var,
                 expected_answer, response, invoked, solution>>

\* simplified = sp.simplify(derivative); the optional third step; the return
differentiate_simplify ==
  /\ UNCHANGED ocrVars
  /\ pc = "d_simplify"
  /\ \E simplified \in sp_call, differs \in BOOLEAN, text \in sympy_to_latex :
       IF simplified.raised
       THEN /\ ReturnResult(differentiate_except(steps, simplified.msg))
            /\ raised' = Caught(simplified.msg)
            /\ UNCHANGED <<steps, answer>>
       ELSE IF differs
       THEN IF text.raised
            THEN /\ ReturnResult(differentiate_except(steps, text.msg))
                 /\ raised' = Caught(text.msg)
                 /\ UNCHANGED <<steps, answer>>
            ELSE /\ steps' = Append(steps,
                      SolutionStep(3, <<"Simplify">>, text.value))
                 /\ answer' = text.value
                 /\ ReturnResult(SolveResult(TRUE, text.value, steps', None))
                 /\ UNCHANGED raised
       ELSE /\ ReturnResult(SolveResult(TRUE, answer, steps, None))
            /\ UNCHANGED <<steps, answer, raised>>
  /\ UNCHANGED <<route, request, latex, arg_var, expr, var,
                 expected_answer, response, invoked, solution>>

integrate_parse ==
  /\ UNCHANGED ocrVars
  /\ pc = "i_parse"
  /\ \E e \in latex_to_sympy(latex), symbol \in sp_call :
       LET calls == <<e, symbol>>
       IN  IF AnyRaised(calls)
           THEN /\ ReturnResult(integrate_except(<<>>, FirstRaised(calls).msg))
                /\ raised' = Caught(FirstRaised(calls).msg)
                /\ steps' = <<>>
                /\ UNCHANGED expr
           ELSE /\ expr' = e.value
                /\ steps' = Append(<<>>,
                     SolutionStep(1,
                       <<"Integrate with respect to ">> \o arg_var.val,
                       <<"\\int ">> \o latex \o <<" \\, d">> \o arg_var.val))
                /\ pc' = "i_integrate"
                /\ UNCHANGED <<result, raised>>
  /\ UNCHANGED <<route, request, latex, arg_var, var, answer,
                 expected_answer, response, invoked, solution>>

integrate_integrate ==
  /\ UNCHANGED ocrVars
  /\ pc = "i_integrate"
  /\ \E integral \in sp_call, text \in sympy_to_latex :
       LET calls == <<integral, text>>
       IN  IF AnyRaised(calls)
           THEN /\ ReturnResult(integrate_except(steps, FirstRaised(calls).msg))
                /\ raised' = Caught(FirstRaised(calls).msg)
                /\ UNCHANGED steps
           ELSE /\ steps' = Append(steps,
                     SolutionStep(2, <<"Apply integration rules">>,
                                  text.value \o <<" + C">>))
                /\ ReturnResult(
                     SolveResult(TRUE, text.value \o <<" + C">>, steps', None))
                /\ UNCHANGED raised
  /\ UNCHANGED <<route, request, latex, arg_var, expr, var, answer,
                 expected_answer, response, invoked, solution>>

\* ---------------------------------------------------------------- routes
\* a new request starts with fresh locals
Fresh ==
  /\ steps' = <<>>
  /\ expr' = <<>>
  /\ var' = <<>>
  /\ answer' = <<>>
  /\ result' = Pending
  /\ raised' = NotCaught
  /\ solution' = NotSolved

\* POST /solve: the empty check and the dispatch on request.operation
solve_expression ==
  /\ UNCHANGED ocrVars
  /\ pc = "idle"
  /\ \E l \in LatexInputs, op \in Operations, sf \in SolveForChoices :
       /\ request' = [NoRequest EXCEPT !.expression_latex = l,
                                       !.operation = op, !.solve_for = sf]
       /\ route' = "solve"
       /\ expected_answer' = None
       /\ Fresh
       /\ IF Len(l) = 0
          THEN /\ response' = HTTPException(400)
               /\ pc' = "done"
               /\ invoked' = "none"
               /\ UNCHANGED <<latex, arg_var>>
          ELSE /\ response' = NoResponse
               /\ latex' = l
               /\ IF op = "differentiate"
                  THEN /\ invoked' = "differentiate"
                       /\ arg_var' = IF Truthy(sf) THEN sf ELSE Some(<<"x">>)
                       /\ pc' = "d_parse"
                  ELSE IF op = "integrate"
                  THEN /\ invoked' = "integrate"
                       /\ arg_var' = IF Truthy(sf) THEN sf ELSE Some(<<"x">>)
                       /\ pc' = "i_parse"
                  ELSE /\ invoked' = "solve_equation"
                       /\ arg_var' = sf
                       /\ pc' = "se_begin"

\* POST /solve: the conversion of result.steps and the response
solve_expression_respond ==
  /\ UNCHANGED ocrVars
  /\ pc = "returned"
  /\ route = "solve"
  /\ response' = IF result.kind = "None" THEN Escaped ELSE SolveResponse(result)
  /\ pc' = "done"
  /\ UNCHANGED <<route, request, latex, arg_var, steps, expr, var, answer,
                 expected_answer, result, invoked, raised, solution>>

\* POST /solve/verify: up to the call of solve_equation
verify_answer ==
  /\ UNCHANGED ocrVars
  /\ pc = "idle"
  /\ \E l \in LatexInputs, ua \in UserAnswers, ea \in ExpectedChoices :
       /\ request' = [NoRequest EXCEPT !.expression_latex = l,
                                       !.user_answer = ua,
                                       !.expected_answer = ea]
       /\ route' = "verify"
       /\ expected_answer' = ea
       /\ response' = NoResponse
       /\ Fresh
       /\ IF ~Truthy(ea)
          THEN /\ invoked' = "solve_equation"
               /\ latex' = l
               /\ arg_var' = None
               /\ pc' = "se_begin"
          ELSE /\ invoked' = "none"
               /\ pc' = "verify_compare"
               /\ UNCHANGED <<latex, arg_var>>

\* POST /solve/verify: if not result.success ... expected_answer = ...
verify_answer_solved ==
  /\ UNCHANGED ocrVars
  /\ pc = "returned"
  /\ route = "verify"
  /\ IF result.kind = "None"
     THEN /\ response' = Escaped
          /\ pc' = "done"
          /\ UNCHANGED expected_answer
     ELSE IF ~result.success
     THEN /\ response' = VerifyDict(FALSE, result.error)
          /\ pc' = "done"
          /\ UNCHANGED expected_answer
     ELSE /\ expected_answer' = Some(result.answer_latex)
          /\ pc' = "verify_compare"
          /\ UNCHANGED response
  /\ UNCHANGED <<route, request, latex, arg_var, steps, expr, var, answer,
                 result, invoked, raised, solution>>

\* POST /solve/verify: the comparison inside try/except
verify_answer_compare ==
  /\ UNCHANGED ocrVars
  /\ pc = "verify_compare"
  /\ LET parts == Split(expected_answer.val, "=")
     IN  \E user_expr \in parse_latex(request.user_answer),
            expected_expr \in parse_latex(Strip(parts[Len(parts)])),
            diff \in sp_call, is_correct \in BOOLEAN :
           LET calls == <<user_expr, expected_expr, diff>>
           IN  response' =
                 IF AnyRaised(calls)
                 THEN VerifyDict(FALSE, Some(FirstRaised(calls).msg))
                 ELSE [VerifyDict(is_correct, None) EXCEPT
                         !.answer_latex = expected_answer.val]
  /\ pc' = "done"
  /\ UNCHANGED <<route, request, latex, arg_var, steps, expr, var, answer,
                 expected_answer, result, invoked, raised, solution>>

\* the server sends the response and discards the request's objects
serve_next ==
  /\ UNCHANGED ocrVars
  /\ pc = "done"
  /\ pc' = "idle"
  /\ route' = "none"
  /\ request' = NoRequest
  /\ latex' = <<>>
  /\ arg_var' = None
  /\ expected_answer' = None
  /\ response' = NoResponse
  /\ invoked' = "none"
  /\ Fresh

Next ==
  \/ serve_next
  \/ solve_expression
  \/ solve_expression_respond
  \/ verify_answer
  \/ verify_answer_solved
  \/ verify_answer_compare
  \/ solve_equation_begin
  \/ solve_equation_parse
  \/ solve_equation_identify
  \/ solve_equation_resolve
  \/ solve_equation_solve
  \/ solve_equation_simplify_step
  \/ solve_equation_simplify
  \/ differentiate_parse
  \/ differentiate_diff
  \/ differentiate_simplify
  \/ integrate_parse
  \/ integrate_integrate

Spec == Init /\ [][Next]_vars

\* ---------------------------------------------------------------- OCRService
\* POST /pix2tex: the empty check and the call of OCRService.recognize
convert_image_to_latex(t) ==
  /\ opc[t] = "idle"
  /\ \E img \in Images :
       /\ image' = [image EXCEPT ![t] = img]
       /\ IF Len(img) = 0
          THEN /\ oresponse' = [oresponse EXCEPT ![t] = OCRHTTPException]
               /\ opc' = [opc EXCEPT ![t] = "done"]
          ELSE /\ opc' = [opc EXCEPT ![t] = "r_decode"]
               /\ UNCHANGED oresponse
  /\ UNCHANGED <<_model, created, handles, model, recognized, oraised>>
  /\ UNCHANGED solverVars

\* the payload image_from_base64 decodes
image_payload(img) ==
  IF Contains(img, ",") THEN Split(img, ",")[2] ELSE img

\* b64decode, Image.open and convert: raise or return the image
image_from_base64(img) == Raises \cup {Return(image_payload(img))}

\* recognize's except clause
recognize_except(msg) == RecognizeTuple(None, "0.0", Some(msg))

\* recognize: image = cls.image_from_base64(image_base64)
recognize_decode(t) ==
  /\ opc[t] = "r_decode"
  /\ \E im \in image_from_base64(image[t]) :
       IF im.raised
       THEN /\ recognized' = [recognized EXCEPT ![t] = recognize_except(im.msg)]
            /\ oraised' = [oraised EXCEPT ![t] = TRUE]
            /\ opc' = [opc EXCEPT ![t] = "returned"]
       ELSE /\ opc' = [opc EXCEPT ![t] = "gm_check"]
            /\ UNCHANGED <<recognized, oraised>>
  /\ UNCHANGED <<_model, created, handles, image, model, oresponse>>
  /\ UNCHANGED solverVars

\* get_model: if cls._model is None
get_model_check(t) ==
  /\ opc[t] = "gm_check"
  /\ opc' = [opc EXCEPT ![t] = IF _model = 0 THEN "gm_construct" ELSE "gm_return"]
  /\ UNCHANGED <<_model, created, handles, image, model, recognized,
                 oresponse, oraised>>
  /\ UNCHANGED solverVars

\* get_model: from pix2tex.cli import LatexOCR; cls._model = LatexOCR()
get_model_construct(t) ==
  /\ opc[t] = "gm_construct"
  /\ \E made \in sp_call :
       IF made.raised
       THEN /\ recognized' =
                 [recognized EXCEPT ![t] = recognize_except(made.msg)]
            /\ oraised' = [oraised EXCEPT ![t] = TRUE]
            /\ opc' = [opc EXCEPT ![t] = "returned"]
            /\ UNCHANGED <<_model, created>>
       ELSE /\ created' = created + 1
            /\ _model' = created + 1
            /\ opc' = [opc EXCEPT ![t] = "gm_return"]
            /\ UNCHANGED <<recognized, oraised>>
  /\ UNCHANGED <<handles, image, model, oresponse>>
  /\ UNCHANGED solverVars

\* get_model: return cls._model
get_model_return(t) ==
  /\ opc[t] = "gm_return"
  /\ model' = [model EXCEPT ![t] = _model]
  /\ handles' = handles \cup {_model}
  /\ opc' = [opc EXCEPT ![t] = "r_run"]
  /\ UNCHANGED <<_model, created, image, recognized, oresponse, oraised>>
  /\ UNCHANGED solverVars

\* recognize: latex = model(image), the confidence, the return
recognize_run(t) ==
  /\ opc[t] = "r_run"
  /\ \E out \in Raises \cup {Return(l) : l \in Recognitions} :
       IF out.raised
       THEN /\ recognized' = [recognized EXCEPT ![t] = recognize_except(out.msg)]
            /\ oraised' = [oraised EXCEPT ![t] = TRUE]
       ELSE /\ recognized' =
                 [recognized EXCEPT ![t] =
                    RecognizeTuple(Some(out.value),
                                   IF Len(out.value) > 0 THEN "0.9" ELSE "0.0",
                                   None)]
            /\ UNCHANGED oraised
  /\ opc' = [opc EXCEPT ![t] = "returned"]
  /\ UNCHANGED <<_model, created, handles, image, model, oresponse>>
  /\ UNCHANGED solverVars

\* POST /pix2tex: if error: ... return OCRResponse(...)
convert_image_to_latex_respond(t) ==
  /\ opc[t] = "returned"
  /\ oresponse' =
       [oresponse EXCEPT ![t] =
          IF Truthy(recognized[t].error)
          THEN OCRResponse(FALSE, None, "0.0", recognized[t].error)
          ELSE OCRResponse(TRUE, recognized[t].latex,
                           recognized[t].confidence, None)]
  /\ opc' = [opc EXCEPT ![t] = "done"]
  /\ UNCHANGED <<_model, created, handles, image, model, recognized, oraised>>
  /\ UNCHANGED solverVars

\* the server sends the response; the caller may send its next request
ocr_serve_next(t) ==
  /\ opc[t] = "done"
  /\ opc' = [opc EXCEPT ![t] = "idle"]
  /\ image' = [image EXCEPT ![t] = <<>>]
  /\ model' = [model EXCEPT ![t] = 0]
  /\ recognized' = [recognized EXCEPT ![t] = NotRecognized]
  /\ oresponse' = [oresponse EXCEPT ![t] = NoOCRResponse]
  /\ oraised' = [oraised EXCEPT ![t] = FALSE]
  /\ UNCHANGED <<_model, created, handles>>
  /\ UNCHANGED solverVars

NextOCR ==
  \E t \in Threads :
    \/ convert_image_to_latex(t)
    \/ recognize_decode(t)
    \/ get_model_check(t)
    \/ get_model_construct(t)
    \/ get_model_return(t)
    \/ recognize_run(t)
    \/ convert_image_to_latex_respond(t)
    \/ ocr_serve_next(t)

SpecOCR == Init /\ [][NextOCR]_vars

\* ---------------------------------------------------------------- properties
StepsNumbered(st) == \A i \in 1..Len(st) : st[i].step_number = i
Descriptions(st) == [i \in 1..Len(st) |-> st[i].description]
\* the number of '=' in l
EqCount(l) == Len(Split(l, "=")) - 1
\* the service call is running or has returned
InCall == pc \notin {"idle", "done", "verify_compare"}

\* C1: every public operation returns a structured result: a solver call
\* returns a SolveResult (never nothing), and no exception escapes a route.
C1_Total ==
  /\ pc = "returned" => result.kind = "SolveResult"
  /\ pc = "done" => response.kind \in {"SolveResponse", "dict", "HTTPException"}
  /\ \A t \in Threads :
       opc[t] = "done" => oresponse[t].kind \in {"OCRResponse", "HTTPException"}

\* C2: in every SolveResult, success implies an empty error and a non-empty
\* answer_latex, and failure implies a non-empty error.
C2_ResultInvariant ==
  result.kind = "SolveResult" =>
    /\ result.success => ~Truthy(result.error) /\ Len(result.answer_latex) > 0
    /\ ~result.success => Truthy(result.error)

\* C3: the step numbers of the recorded steps and of every returned result
\* are 1, 2, ..., n in order, and during a call the steps only grow: each
\* step of the call leaves the recorded steps as a prefix of the new ones
\* and leaves a returned result as it is.
C3_Numbered ==
  /\ StepsNumbered(steps)
  /\ result.kind = "SolveResult" =>
       result.steps = steps /\ StepsNumbered(result.steps)
  /\ response.kind = "SolveResponse" => StepsNumbered(response.steps)
C3_AppendOnly ==
  pc \notin {"idle", "done"} =>
    /\ IsPrefix(steps, steps')
    /\ result.kind = "SolveResult" => result' = result
C3_StepNumbers == []C3_Numbered /\ [][C3_AppendOnly]_vars
\* a failed solve_equation call that kept three steps
C3_Witness ==
  /\ pc = "returned" /\ invoked = "solve_equation"
  /\ result.kind = "SolveResult" /\ ~result.success /\ raised.some
  /\ Len(result.steps) = 3

\* the steps a call records before it reaches position at
StepsBefore(at) ==
  CASE at \in {"d_parse", "i_parse"} -> 0
    [] at \in {"se_parse", "se_identify", "se_simplify_step", "d_diff",
               "i_integrate"} -> 1
    [] at \in {"se_resolve", "se_simplify", "d_simplify"} -> 2
    [] at = "se_solve" -> 3
\* the descriptions a run of the operation that does not fail records
FullDescriptions ==
  IF invoked = "differentiate"
  THEN << <<"Differentiate with respect to ">> \o arg_var.val,
          <<"Apply differentiation rules">>, <<"Simplify">> >>
  ELSE IF invoked = "integrate"
  THEN << <<"Integrate with respect to ">> \o arg_var.val,
          <<"Apply integration rules">> >>
  ELSE IF Contains(latex, "=")
  THEN << <<"Parse the expression">>, <<"Identify the equation">>,
          <<"Solve for ">> \o var, <<"Solution">> >>
  ELSE << <<"Parse the expression">>, <<"Simplify the expression">>,
          <<"Simplified result">> >>

\* C4: when parsing or an engine call raises, the call returns success=false,
\* answer_latex "", the exception's message as error, and exactly the steps
\* recorded before the raising call, a prefix of a non-failing run's steps:
\* one 'Parse the expression' step after a parse failure of solve_equation,
\* none after a parse failure of differentiate or integrate.
C4_ExceptionResult ==
  (pc = "returned" /\ raised.some) =>
    /\ result = SolveResult(FALSE, <<>>, steps, Some(raised.val))
    /\ Len(steps) = StepsBefore(raised.at)
    /\ IsPrefix(Descriptions(steps), FullDescriptions)
    /\ raised.at \in {"se_parse", "se_identify"} =>
         steps = <<SolutionStep(1, <<"Parse the expression">>, latex)>>
    /\ raised.at \in {"d_parse", "i_parse"} => result.steps = <<>>
\* sp.solve raised with the empty message after three steps were recorded
C4_Witness ==
  /\ pc = "returned" /\ raised.some /\ raised.at = "se_solve"
  /\ raised.val = <<>> /\ Len(result.steps) = 3

\* C5: with more than one '=' in the input, solve_equation goes on with the
\* first two segments: unless a call raises it records 'Identify the
\* equation' and 'Solve for <var>' and returns a SolveResult.
C5_MultiEquals ==
  (pc = "returned" /\ invoked = "solve_equation" /\ EqCount(latex) > 1
     /\ ~raised.some) =>
    /\ result.kind = "SolveResult"
    /\ Len(steps) >= 3
    /\ steps[2].description = <<"Identify the equation">>

C7_CreatedOnce == created <= 1 /\ Cardinality(handles) <= 1

\* C8: when decoding or the model raises, the response has success=false,
\* a non-empty error, no latex and confidence 0.0.
C8_RecognitionError ==
  \A t \in Threads :
    (opc[t] = "done" /\ oraised[t]) =>
      /\ ~oresponse[t].success
      /\ Truthy(oresponse[t].error)
      /\ oresponse[t].latex = None
      /\ oresponse[t].confidence = "0.0"

\* C9: a request with an empty expression or image invokes no service
\* operation and constructs no step and no SolveResult.
C9_EmptyRejected ==
  /\ (route # "none" /\ Len(request.expression_latex) = 0) =>
       invoked = "none" /\ steps = <<>> /\ result.kind = "pending"
  /\ \A t \in Threads :
       (opc[t] # "idle" /\ Len(image[t]) = 0) =>
         opc[t] = "done" /\ ~recognized[t].returned

\* C10: for an input without '=', solve_equation never records an 'Identify
\* the equation', 'Solve for <var>' or 'Solution' step and never calls
\* sp.solve; when no call raises it returns success=true with exactly the
\* steps 'Parse the expression', 'Simplify the expression', 'Simplified
\* result', and answer_latex is the expression_latex of the last step.
C10_BareExpression ==
  (InCall /\ invoked = "solve_equation" /\ ~Contains(latex, "=")) =>
    /\ ~solution.called
    /\ \A i \in 1..Len(steps) :
         /\ steps[i].description \notin
              {<<"Identify the equation">>, <<"Solution">>}
         /\ Head(steps[i].description) # "Solve for "
    /\ (pc = "returned" /\ ~raised.some) =>
         /\ result.kind = "SolveResult" /\ result.success
         /\ result.steps = steps
         /\ Descriptions(steps) =
              << <<"Parse the expression">>, <<"Simplify the expression">>,
                 <<"Simplified result">> >>
         /\ result.answer_latex = steps[3].expression_latex
C10_Witness ==
  /\ pc = "returned" /\ invoked = "solve_equation" /\ ~Contains(latex, "=")
  /\ result.kind = "SolveResult" /\ result.success /\ Len(steps) = 3

====
